---------------------------- MODULE Spec2Model ----------------------------
(***************************************************************************)
(* The payment / order / ticket engine of the ticketing backend:           *)
(*   services/transactionService.js  (src/unnamed/part_012)                *)
(*   controllers/ticketController.js, transactionController.js,            *)
(*   controllers/orderController.js (src/unnamed/part_002),                *)
(*   controllers/disputeController.js, validationController.js,            *)
(*   services/webhookService.js                                            *)
(*                                                                         *)
(* Spec serves the requests on one order one at a time; RaceSpec,          *)
(* PurchaseSpec and ScanSpec run payments, purchases and scans in flight   *)
(* together; SalesSpec runs purchases and payments from an empty database. *)
(* ReconcileSpec runs the admin's reconciliation beside the payments.      *)
(* RecoverSpec adds the repair of an order with no transaction;            *)
(* WebhookSpec is the Paystack webhook handler; AuditSpec is Spec with the *)
(* webhook;                                                                *)
(* EventSpec is purchases of an event that may be cancelled or deleted;    *)
(* TokenSpec is the QR token service.                                      *)
(* RetrySpec adds TransactionService.retryTransaction to the payments;     *)
(* LimitSpec is SalesSpec on a tier with a low maxPerUser; CancelledSpec is*)
(* scans and refunds on Tickets of which some are cancelled; SplitSpec is  *)
(* PaystackService.calculateSplit.                                         *)
(*                                                                         *)
(* The database is the only shared state.  A request handler is a process  *)
(* in a slot of reqs; every await on the database is one step.  A          *)
(* callback run by TransactionService.withTransaction is one step: the     *)
(* MongoDB session makes it atomic (a write conflict aborts and re-runs    *)
(* it).  A document.save() outside a session writes the fields the handler *)
(* modified on its own copy, whatever the row holds by then.               *)
(***************************************************************************)
EXTENDS Integers, Sequences, FiniteSets, TLC

----------------------------------------------------------------------------
(* Bounds of the model *)

\* request handlers in flight at the same time
MaxInflight == 2
\* Transactions (and Orders) ever created
MaxTx == 2
\* Tickets ever minted
MaxTickets == 4
\* refund records per Transaction
MaxRefunds == 2
\* disputes ever opened
MaxDisputes == 1
\* largest total handed to calculateSplit
MaxSplitTotal == 12

(* Program constants *)

\* transactionSchema.maxRetries default
DefaultMaxRetries == 3
\* ticketTierSchema.maxPerUser default
DefaultMaxPerUser == 4
\* initializePurchase: quantity must be within 1..MaxQuantity
MaxQuantity == 10

(* The event on sale: one published event with one tier *)
TierQuantity == 2
TierPrice == 2

Slots == 1..MaxInflight
\* idempotency keys a client may send; NoKey: the header is absent
ClientKeys == {1, 2}
NoKey == 0
\* quantities a client may ask for
Quantities == {0, 1, 2, MaxQuantity + 1}
\* body.amount / body.refundAmount of a refund request; 0: not supplied
RefundInputs == {-1, 0, 1, 5}
\* users that scan at the gate
Scanners == {1, 2}

----------------------------------------------------------------------------
(* Transaction state machine *)

STATE_TRANSITIONS ==
  [ initiated          |-> {"processing", "failed"},
    processing         |-> {"completed", "failed"},
    completed          |-> {"refunded", "partially_refunded"},
    failed             |-> {"processing"},
    refunded           |-> {},
    partially_refunded |-> {"refunded"} ]

Statuses == DOMAIN STATE_TRANSITIONS

validateStateTransition(fromState, toState) ==
  IF fromState \in DOMAIN STATE_TRANSITIONS
    THEN toState \in STATE_TRANSITIONS[fromState]
    ELSE FALSE

RECURSIVE SumSeq(_)
SumSeq(s) == IF s = <<>> THEN 0 ELSE Head(s) + SumSeq(Tail(s))

\* transactionSchema.virtual("netAmount")
netAmount(tx) == tx.amount - tx.totalRefunded

\* transactionSchema.methods.canRetry and TransactionService.canRetry
canRetry(status, retryCount, maxRetries) ==
  status = "failed" /\ retryCount < maxRetries

\* transactionSchema.methods.isRefundable
isRefundable(tx) == tx.status = "completed" /\ netAmount(tx) > 0

\* TransactionService.canRefund: amount = 0 stands for a missing amount
canRefund(tx, amount) ==
  /\ tx.status \in {"completed", "partially_refunded"}
  /\ netAmount(tx) > 0
  /\ ~(amount # 0 /\ amount > netAmount(tx))

----------------------------------------------------------------------------
VARIABLES
  txs,        \* Transaction collection: sequence of rows, _id = index
  orders,     \* Order collection: sequence of rows, _id = index
  tickets,    \* Ticket collection: sequence of rows, _id = index
  tier,       \* the event's ticket tier: quantity, soldCount, maxPerUser
  event,      \* the event's counters: totalTicketsSold, totalRevenue
  disputes,   \* Dispute collection: sequence of rows
  reqs,       \* request handlers in flight, by slot
  gatewayInit,\* per key: payments paystackService.initializePayment opened for purchases
  completions,\* per Transaction: times completeTransaction committed
  scanLog,    \* per Ticket: the users scanTicket answered VALID to
  last        \* the step just taken: handler, Transaction, outcome

db == <<txs, orders, tickets, tier, event, disputes>>
vars == <<txs, orders, tickets, tier, event, disputes, reqs, gatewayInit,
          completions, scanLog, last>>

Idle == [op |-> "idle"]
NoStep == [op |-> "none", t |-> 0, out |-> "none"]
Step(op, t, out) == [op |-> op, t |-> t, out |-> out]

Init ==
  /\ txs = <<>>
  /\ orders = <<>>
  /\ tickets = <<>>
  /\ tier = [quantity |-> TierQuantity, soldCount |-> 0,
             maxPerUser |-> DefaultMaxPerUser, price |-> TierPrice]
  /\ event = [totalTicketsSold |-> 0, totalRevenue |-> 0,
              status |-> "published", deletedAt |-> "null"]
  /\ disputes = <<>>
  /\ reqs = [s \in Slots |-> Idle]
  /\ gatewayInit = [k \in ClientKeys |-> 0]
  /\ completions = <<>>
  /\ scanLog = [k \in 1..MaxTickets |-> <<>>]
  /\ last = NoStep

TxIds == 1..Len(txs)
OrderIds == 1..Len(orders)
TicketIds == 1..Len(tickets)

\* A new request takes the lowest free slot (slots have no identity)
Free(s) == reqs[s] = Idle /\ \A p \in Slots : p < s => reqs[p] # Idle

Finish(s) == reqs' = [reqs EXCEPT ![s] = Idle]
Goto(s, r) == reqs' = [reqs EXCEPT ![s] = r]

\* Transaction.findOne({ idempotencyKey })
findByIdempotencyKey(key) == {t \in TxIds : txs[t].idempotencyKey = key}

\* Transaction.findOne({ order })
findByOrder(o) == {t \in TxIds : txs[t].order = o}

\* Ticket.countDocuments({ user, event, tierId, status: { $ne: "cancelled" } })
existingTickets == Cardinality({k \in TicketIds : tickets[k].status # "cancelled"})


----------------------------------------------------------------------------
(* POST /api/tickets/purchase : initializePurchase *)

\* purchases past the idempotency lookup
InflightPurchases == {s \in Slots : reqs[s].op = "purchase"}

\* The handler without its idempotency lookup: every call goes on to validation
PurchaseWithoutLookup(s, key, quantity) ==
  /\ Free(s)
  /\ IF quantity < 1 \/ quantity > MaxQuantity
       THEN /\ last' = Step("purchase", 0, "bad_quantity")
            /\ UNCHANGED reqs
       ELSE /\ Len(txs) + Cardinality(InflightPurchases) < MaxTx
            /\ Goto(s, [op |-> "purchase", pc |-> "validate", key |-> key,
                        quantity |-> quantity])
            /\ last' = NoStep
  /\ UNCHANGED <<db, gatewayInit, completions, scanLog>>

\* Idempotency lookup, then the quantity check (no database access)
PurchaseLookup(s, key, quantity) ==
  /\ Free(s)
  /\ IF key # NoKey /\ findByIdempotencyKey(key) # {}
       THEN /\ last' = Step("purchase", CHOOSE t \in findByIdempotencyKey(key) : TRUE,
                            "idempotent")
            /\ UNCHANGED reqs
       ELSE IF quantity < 1 \/ quantity > MaxQuantity
         THEN /\ last' = Step("purchase", 0, "bad_quantity")
              /\ UNCHANGED reqs
         ELSE /\ Len(txs) + Cardinality(InflightPurchases) < MaxTx
              /\ Goto(s, [op |-> "purchase", pc |-> "validate", key |-> key,
                          quantity |-> quantity])
              /\ last' = NoStep
  /\ UNCHANGED <<db, gatewayInit, completions, scanLog>>

\* Event.findById, tier and per-user checks, then paystackService.initializePayment
PurchaseValidate(s) ==
  /\ reqs[s].op = "purchase" /\ reqs[s].pc = "validate"
  /\ LET r == reqs[s]
         available == tier.quantity - tier.soldCount
     IN IF event.status # "published"
          THEN /\ Finish(s)
               /\ last' = Step("purchase", 0, "not_available")
               /\ UNCHANGED gatewayInit
          ELSE IF r.quantity > available
          THEN /\ Finish(s)
               /\ last' = Step("purchase", 0, "sold_out")
               /\ UNCHANGED gatewayInit
          ELSE IF existingTickets + r.quantity > tier.maxPerUser
            THEN /\ Finish(s)
                 /\ last' = Step("purchase", 0, "user_limit")
                 /\ UNCHANGED gatewayInit
            ELSE \E ok \in BOOLEAN :
                   IF ok
                     THEN /\ gatewayInit' = IF r.key \in ClientKeys
                                              THEN [gatewayInit EXCEPT ![r.key] = @ + 1]
                                              ELSE gatewayInit
                          /\ Goto(s, [r EXCEPT !.pc = "create"])
                          /\ last' = NoStep
                     ELSE /\ UNCHANGED gatewayInit
                          /\ Finish(s)
                          /\ last' = Step("purchase", 0, "init_failed")
  /\ UNCHANGED <<db, completions, scanLog>>

\* TransactionService.generateIdempotencyKey: a key no other Transaction has
generateIdempotencyKey == 0 - (Len(txs) + 1)

NewOrder(quantity) ==
  [ quantity |-> quantity, unitPrice |-> tier.price,
    totalAmount |-> tier.price * quantity,
    paymentStatus |-> "pending", tickets |-> <<>> ]

NewTransaction(key, order, quantity) ==
  [ idempotencyKey |-> key, status |-> "initiated", order |-> order,
    amount |-> tier.price * quantity, quantity |-> quantity,
    retryCount |-> 0, maxRetries |-> DefaultMaxRetries,
    nextRetryAt |-> "null",
    refunds |-> <<>>, totalRefunded |-> 0 ]

\* initiateTransaction as it would be with no unique index on idempotencyKey
initiateWithoutUniqueIndex(key, quantity) ==
  LET transactionKey == IF key # NoKey THEN key ELSE generateIdempotencyKey
  IN /\ orders' = Append(orders, NewOrder(quantity))
     /\ txs' = Append(txs, NewTransaction(transactionKey, Len(orders) + 1, quantity))
     /\ completions' = Append(completions, 0)
     /\ last' = Step("purchase", Len(txs) + 1, "initiated")

\* TransactionService.initiateTransaction: Order.create and Transaction.create in
\* one session; the unique index on idempotencyKey rejects a second row with the
\* key and the session rolls the Order back.
initiateTransaction(key, quantity) ==
  LET transactionKey == IF key # NoKey THEN key ELSE generateIdempotencyKey
  IN IF findByIdempotencyKey(transactionKey) # {}
       THEN /\ UNCHANGED <<txs, orders, completions>>
            /\ last' = Step("purchase", 0, "duplicate_key")
       ELSE /\ orders' = Append(orders, NewOrder(quantity))
            /\ txs' = Append(txs, NewTransaction(transactionKey, Len(orders) + 1,
                                                 quantity))
            /\ completions' = Append(completions, 0)
            /\ last' = Step("purchase", Len(txs) + 1, "initiated")

PurchaseCreate(s) ==
  /\ reqs[s].op = "purchase" /\ reqs[s].pc = "create"
  /\ initiateTransaction(reqs[s].key, reqs[s].quantity)
  /\ Finish(s)
  /\ UNCHANGED <<tickets, tier, event, disputes, gatewayInit, scanLog>>


----------------------------------------------------------------------------
(* TransactionService.completeTransaction and failTransaction *)

\* ticketGenerator (verifyPayment, handleChargeSuccess): order.quantity Tickets
NewTicket(o) == [order |-> o, status |-> "valid", checkedInBy |-> 0]

RECURSIVE ticketGenerator(_, _)
ticketGenerator(o, n) ==
  IF n = 0 THEN <<>> ELSE <<NewTicket(o)>> \o ticketGenerator(o, n - 1)

\* _id of the Tickets that ticketGenerator(o, n) inserts
TicketRefs(n) == [i \in 1..n |-> Len(tickets) + i]

\* The session callback of completeTransaction, run for Transaction t by handler op
completeTransaction(op, t) ==
  LET tx == txs[t]
      o == tx.order
      order == orders[o]
  IN IF ~validateStateTransition(tx.status, "completed")
       THEN /\ UNCHANGED <<db, completions>>
            /\ last' = Step(op, t, "cannot_complete")
       ELSE /\ Len(tickets) + order.quantity <= MaxTickets
            /\ txs' = [txs EXCEPT ![t].status = "completed"]
            /\ tier' = [tier EXCEPT !.soldCount = @ + order.quantity]
            /\ event' = [event EXCEPT
                           !.totalTicketsSold = @ + order.quantity,
                           !.totalRevenue = @ + order.totalAmount]
            /\ tickets' = tickets \o ticketGenerator(o, order.quantity)
            /\ orders' = [orders EXCEPT ![o].paymentStatus = "completed",
                                        ![o].tickets = TicketRefs(order.quantity)]
            /\ completions' = [completions EXCEPT ![t] = @ + 1]
            /\ UNCHANGED disputes
            /\ last' = Step(op, t, "completed")

\* failTransaction as it would be without validateStateTransition
failWithoutValidation(op, t) ==
  /\ txs' = [txs EXCEPT ![t].status = "failed"]
  /\ orders' = [orders EXCEPT ![txs[t].order].paymentStatus = "failed"]
  /\ UNCHANGED <<tickets, tier, event, disputes>>
  /\ last' = Step(op, t, "failed")

\* The session callback of failTransaction
failTransaction(op, t) ==
  LET tx == txs[t]
  IN IF ~validateStateTransition(tx.status, "failed")
       THEN /\ UNCHANGED db
            /\ last' = Step(op, t, "cannot_fail")
       ELSE /\ txs' = [txs EXCEPT ![t].status = "failed"]
            /\ orders' = [orders EXCEPT ![tx.order].paymentStatus = "failed"]
            /\ UNCHANGED <<tickets, tier, event, disputes>>
            /\ last' = Step(op, t, "failed")

----------------------------------------------------------------------------
(* POST /api/tickets/verify : verifyPayment *)

\* transactionService.findByReference and the early return for a completed row
VerifyLookup(s, t) ==
  /\ Free(s)
  /\ t \in TxIds
  /\ IF txs[t].status = "completed"
       THEN /\ UNCHANGED reqs
            /\ last' = Step("verify", t, "already_verified")
       ELSE /\ Goto(s, [op |-> "verify", pc |-> "gateway", t |-> t])
            /\ last' = NoStep
  /\ UNCHANGED <<db, gatewayInit, completions, scanLog>>

\* what the gateway may report as paid, in the unit of Transaction.amount
PaidAmounts == 1..(TierPrice * TierQuantity)

\* paystackService.verifyPayment answers, then failTransaction or completeTransaction;
\* paidAmount is verification.data.amount, which the handler compares with nothing
VerifyGateway(s, paidAmount) ==
  /\ reqs[s].op = "verify" /\ reqs[s].pc = "gateway"
  /\ \E success \in BOOLEAN :
       IF success
         THEN completeTransaction("verify", reqs[s].t)
         ELSE failTransaction("verify", reqs[s].t) /\ UNCHANGED completions
  /\ Finish(s)
  /\ UNCHANGED <<gatewayInit, scanLog>>

----------------------------------------------------------------------------
(* POST /api/webhooks/paystack : WebhookService.processEvent *)

\* handleChargeSuccess: findByReference, skip a completed row
ChargeSuccessLookup(s, t) ==
  /\ Free(s)
  /\ t \in TxIds
  /\ IF txs[t].status = "completed"
       THEN /\ UNCHANGED reqs
            /\ last' = Step("charge.success", t, "skipped")
       ELSE /\ Goto(s, [op |-> "charge.success", pc |-> "complete", t |-> t])
            /\ last' = NoStep
  /\ UNCHANGED <<db, gatewayInit, completions, scanLog>>

\* handleChargeSuccess: completeTransaction; an exception is caught and logged
ChargeSuccessComplete(s, paidAmount) ==
  /\ reqs[s].op = "charge.success" /\ reqs[s].pc = "complete"
  /\ completeTransaction("charge.success", reqs[s].t)
  /\ Finish(s)
  /\ UNCHANGED <<gatewayInit, scanLog>>

\* handleChargeFailed: findByReference, skip a failed or completed row
ChargeFailedLookup(s, t) ==
  /\ Free(s)
  /\ t \in TxIds
  /\ IF txs[t].status \in {"failed", "completed"}
       THEN /\ UNCHANGED reqs
            /\ last' = Step("charge.failed", t, "skipped")
       ELSE /\ Goto(s, [op |-> "charge.failed", pc |-> "fail", t |-> t])
            /\ last' = NoStep
  /\ UNCHANGED <<db, gatewayInit, completions, scanLog>>

\* handleChargeFailed: failTransaction
ChargeFailedFail(s) ==
  /\ reqs[s].op = "charge.failed" /\ reqs[s].pc = "fail"
  /\ failTransaction("charge.failed", reqs[s].t)
  /\ Finish(s)
  /\ UNCHANGED <<gatewayInit, completions, scanLog>>


----------------------------------------------------------------------------
(* auditService.log over AuditLog.log *)

NoActor == 0
Actors == {NoActor, 1}

\* auditLogSchema.statics.log: reads actor.id of the actor it is given, then
\* log.save(), which the database may refuse
AuditLogLog(actor, saveOk) ==
  IF actor = NoActor THEN "throws"
  ELSE IF saveOk THEN "saved" ELSE "throws"

\* The actor of logError, { isSystem: true }, and req.user of an authenticated
\* request
SystemActor == 1
ReqUser == 1

\* log as it would be without its try / catch
logWithoutCatch(actor, saveOk) == AuditLogLog(actor, saveOk)

\* auditService.log: the saved entry, or null when AuditLog.log throws
log(actor, saveOk) ==
  IF AuditLogLog(actor, saveOk) = "throws" THEN "null" ELSE "saved"

\* What a handler answers when it awaits logTransaction(..., actor, ...) and
\* then responds with out: the exception leaves through asyncHandler
Audited(actor, out) ==
  {IF log(actor, saveOk) = "throws" THEN "audit_error" ELSE out :
     saveOk \in BOOLEAN}

----------------------------------------------------------------------------
(* POST /api/webhooks/paystack : webhookController.handlePaystackWebhook *)

NoSecret == 0
ServerSecret == 1
OtherSecret == 2
Secrets == {ServerSecret, OtherSecret}

\* Request bodies as sent: a compact JSON text, the same JSON with white space
\* in it, and another compact JSON text
CompactBody == 1
SpacedBody == 2
OtherBody == 3
RawBodies == {CompactBody, SpacedBody, OtherBody}

\* JSON.stringify(req.body) of the body express.json() parsed
JSONStringify(raw) == IF raw = SpacedBody THEN CompactBody ELSE raw

\* crypto.createHmac("sha512", key).update(payload).digest("hex")
HmacSha512(key, payload) == key * Cardinality(RawBodies) + payload

NoSignature == 0
Signatures ==
  {NoSignature, HmacSha512(OtherSecret, CompactBody)}
    \cup {HmacSha512(ServerSecret, b) : b \in RawBodies}

\* WebhookService.validateSignature
validateSignature(payload, signature, secretKey) ==
  IF secretKey = NoSecret THEN FALSE
  ELSE IF signature = NoSignature THEN FALSE
  ELSE HmacSha512(secretKey, payload) = signature

NoEvent == "none"
\* the event types processEvent only acknowledges
TransferEvents == {"transfer.success", "transfer.failed", "refund.processed"}
EventTypes == {NoEvent, "charge.success", "charge.failed", "customer.created"}
                \cup TransferEvents
UnknownReference == 0

\* res.status(status).json({ success, ... })
Respond(t, status, success, out, audit, eventType) ==
  [op |-> "webhook", t |-> t, out |-> out, http |-> status, success |-> success,
   audit |-> audit, eventType |-> eventType]

\* The answer to an invalid signature, with another status
InvalidSignatureUnauthorized ==
  Respond(0, 401, FALSE, "Invalid signature", "none", NoEvent)

\* return res.status(200).json({ success: false, message: "Invalid signature" })
InvalidSignatureResponse ==
  Respond(0, 200, FALSE, "Invalid signature", "none", NoEvent)

\* processEvent's default branch answering as the transfer handlers do
UnhandledAsHandled(eventType) ==
  Respond(0, 200, TRUE, "handled", "none", eventType)

\* processEvent, default: return { handled: false, eventType }
Unhandled(eventType) ==
  Respond(0, 200, TRUE, "unhandled", "none", eventType)

\* The handler up to the first await of processEvent: the signature over
\* req.rawBody || JSON.stringify(req.body) (nothing sets req.rawBody), the
\* event field, the switch on the event type, const { reference } = data
WebhookReceive(s, secretKey, raw, signature, eventType, hasData, reference) ==
  /\ Free(s)
  /\ LET rawBody == JSONStringify(raw)
     IN IF ~validateSignature(rawBody, signature, secretKey)
          THEN /\ last' = InvalidSignatureResponse
               /\ UNCHANGED reqs
          ELSE IF eventType = NoEvent
            THEN /\ last' = Respond(0, 200, FALSE, "Invalid event format", "none",
                                        NoEvent)
                 /\ UNCHANGED reqs
            ELSE IF eventType \notin {"charge.success", "charge.failed"}
                                     \cup TransferEvents
              THEN /\ last' = Unhandled(eventType)
                   /\ UNCHANGED reqs
              ELSE IF ~hasData
                THEN /\ last' = Respond(0, 200, FALSE, "Webhook processing error",
                                        "none", eventType)
                     /\ UNCHANGED reqs
                ELSE IF eventType \in TransferEvents
                  THEN /\ last' = Respond(0, 200, TRUE, "handled", "none",
                                          eventType)
                       /\ UNCHANGED reqs
                  ELSE /\ Goto(s, [op |-> "webhook", pc |-> "find",
                                   eventType |-> eventType, t |-> reference,
                                   result |-> "none", audit |-> "none"])
                       /\ last' = NoStep
  /\ UNCHANGED <<db, gatewayInit, completions, scanLog>>

\* handleChargeSuccess / handleChargeFailed: findByReference and the skips
WebhookFind(s) ==
  /\ reqs[s].op = "webhook" /\ reqs[s].pc = "find"
  /\ LET r == reqs[s]
     IN IF r.t \notin TxIds
          THEN /\ Finish(s)
               /\ last' = Respond(0, 200, TRUE, "not_found", "none", r.eventType)
          ELSE IF \/ r.eventType = "charge.success" /\ txs[r.t].status = "completed"
                  \/ r.eventType = "charge.failed"
                       /\ txs[r.t].status \in {"failed", "completed"}
            THEN /\ Finish(s)
                 /\ last' = Respond(r.t, 200, TRUE, "skipped", "none", r.eventType)
            ELSE /\ Goto(s, [r EXCEPT !.pc = "apply"])
                 /\ last' = NoStep
  /\ UNCHANGED <<db, gatewayInit, completions, scanLog>>

\* completeTransaction or failTransaction; what it throws is caught by the handler
WebhookApply(s) ==
  /\ reqs[s].op = "webhook" /\ reqs[s].pc = "apply"
  /\ IF reqs[s].eventType = "charge.success"
       THEN completeTransaction("charge.success", reqs[s].t)
       ELSE failTransaction("charge.failed", reqs[s].t) /\ UNCHANGED completions
  /\ Goto(s, [reqs[s] EXCEPT
                !.pc = IF last'.out = "cannot_fail" THEN "respond" ELSE "audit",
                !.result = last'.out])
  /\ UNCHANGED <<gatewayInit, scanLog>>

\* auditService.logTransaction(..., null, ...) after the operation, or
\* auditService.logError(error, ...) in the catch of handleChargeSuccess
WebhookAudit(s) ==
  /\ reqs[s].op = "webhook" /\ reqs[s].pc = "audit"
  /\ \E saveOk \in BOOLEAN :
       LET actor == IF reqs[s].result = "cannot_complete"
                      THEN SystemActor ELSE NoActor
           a == log(actor, saveOk)
       IN Goto(s, [reqs[s] EXCEPT
                     !.pc = "respond",
                     !.result = IF a = "throws" THEN "Webhook processing error" ELSE @,
                     !.audit = a])
  /\ last' = NoStep
  /\ UNCHANGED <<db, gatewayInit, completions, scanLog>>

\* res.status(200).json({ success: true, ...result }), or the answer of the
\* controller's catch
WebhookRespond(s) ==
  /\ reqs[s].op = "webhook" /\ reqs[s].pc = "respond"
  /\ last' = Respond(reqs[s].t, 200, reqs[s].result # "Webhook processing error",
                     reqs[s].result, reqs[s].audit, reqs[s].eventType)
  /\ Finish(s)
  /\ UNCHANGED <<db, gatewayInit, completions, scanLog>>

----------------------------------------------------------------------------
(* POST /api/transactions/:id/retry : transactionController.retryTransaction *)

\* Transaction.findById and transaction.canRetry()
AdminRetryLoad(s, t) ==
  /\ Free(s)
  /\ t \in TxIds
  /\ IF ~canRetry(txs[t].status, txs[t].retryCount, txs[t].maxRetries)
       THEN /\ UNCHANGED reqs
            /\ last' = Step("admin.retry", t, "not_retryable")
       ELSE /\ Goto(s, [op |-> "admin.retry", pc |-> "save", t |-> t,
                        retryCount |-> txs[t].retryCount])
            /\ last' = NoStep
  /\ UNCHANGED <<db, gatewayInit, completions, scanLog>>

\* transaction.save() of status = "processing" and retryCount += 1 on the copy,
\* then logTransaction("transaction.retry", transaction, req.user)
AdminRetrySave(s) ==
  /\ reqs[s].op = "admin.retry" /\ reqs[s].pc = "save"
  /\ LET r == reqs[s]
     IN /\ txs' = [txs EXCEPT ![r.t].status = "processing",
                              ![r.t].retryCount = r.retryCount + 1]
        /\ \E out \in Audited(ReqUser, "processing") :
             /\ last' = Step("admin.retry", r.t, out)
             /\ IF out = "audit_error"
                  THEN Finish(s)
                  ELSE Goto(s, [r EXCEPT !.pc = "init"])
  /\ UNCHANGED <<orders, tickets, tier, event, disputes, gatewayInit,
                 completions, scanLog>>

\* paystackService.initializePayment answers; on failure the copy is saved with
\* status = "failed", on success with the new gateway.reference
AdminRetryInit(s) ==
  /\ reqs[s].op = "admin.retry" /\ reqs[s].pc = "init"
  /\ LET r == reqs[s]
     IN \E ok \in BOOLEAN :
          IF ok
            THEN /\ UNCHANGED txs
                 /\ last' = Step("admin.retry", r.t, "retried")
            ELSE /\ txs' = [txs EXCEPT ![r.t].status = "failed"]
                 /\ last' = Step("admin.retry", r.t, "failed")
  /\ Finish(s)
  /\ UNCHANGED <<orders, tickets, tier, event, disputes, gatewayInit,
                 completions, scanLog>>

----------------------------------------------------------------------------
(* TransactionService.retryTransaction; no route calls it *)

\* Transaction.findById and canRetry()
ServiceRetryLoad(s, t) ==
  /\ Free(s)
  /\ t \in TxIds
  /\ IF ~canRetry(txs[t].status, txs[t].retryCount, txs[t].maxRetries)
       THEN /\ UNCHANGED reqs
            /\ last' = Step("service.retry", t, "not_retryable")
       ELSE /\ Goto(s, [op |-> "service.retry", pc |-> "save", t |-> t,
                        retryCount |-> txs[t].retryCount])
            /\ last' = NoStep
  /\ UNCHANGED <<db, gatewayInit, completions, scanLog>>

\* after the backoff delay: transaction.save() of status = "processing",
\* retryCount += 1 and nextRetryAt on the copy
ServiceRetrySave(s) ==
  /\ reqs[s].op = "service.retry" /\ reqs[s].pc = "save"
  /\ LET r == reqs[s]
     IN /\ txs' = [txs EXCEPT ![r.t].status = "processing",
                              ![r.t].retryCount = r.retryCount + 1,
                              ![r.t].nextRetryAt = "date"]
        /\ Goto(s, [r EXCEPT !.pc = "init"])
        /\ last' = Step("service.retry", r.t, "processing")
  /\ UNCHANGED <<orders, tickets, tier, event, disputes, gatewayInit,
                 completions, scanLog>>

\* paystackService.initializePayment answers; on failure the copy is saved with
\* status = "failed", on success with the new gateway.reference
ServiceRetryInit(s) ==
  /\ reqs[s].op = "service.retry" /\ reqs[s].pc = "init"
  /\ LET r == reqs[s]
     IN \E ok \in BOOLEAN :
          IF ok
            THEN /\ UNCHANGED txs
                 /\ last' = Step("service.retry", r.t, "retried")
            ELSE /\ txs' = [txs EXCEPT ![r.t].status = "failed"]
                 /\ last' = Step("service.retry", r.t, "failed")
  /\ Finish(s)
  /\ UNCHANGED <<orders, tickets, tier, event, disputes, gatewayInit,
                 completions, scanLog>>

----------------------------------------------------------------------------
(* POST /api/orders/:id/retry : orderController.retryPayment *)

\* Order.findById, the completed check, Transaction.findOne({ order }), canRetry()
BuyerRetryLoad(s, o) ==
  /\ Free(s)
  /\ o \in OrderIds
  /\ findByOrder(o) # {}
  /\ LET t == CHOOSE x \in findByOrder(o) : TRUE
     IN IF orders[o].paymentStatus = "completed"
          THEN /\ UNCHANGED reqs
               /\ last' = Step("buyer.retry", t, "order_completed")
          ELSE IF ~canRetry(txs[t].status, txs[t].retryCount, txs[t].maxRetries)
            THEN /\ UNCHANGED reqs
                 /\ last' = Step("buyer.retry", t, "not_retryable")
            ELSE /\ Goto(s, [op |-> "buyer.retry", pc |-> "init", t |-> t, o |-> o,
                             retryCount |-> txs[t].retryCount,
                             paymentStatus |-> orders[o].paymentStatus])
                 /\ last' = NoStep
  /\ UNCHANGED <<db, gatewayInit, completions, scanLog>>

\* paystackService.initializePayment answers; on success order.save() with
\* paymentStatus = "pending" (written when the copy held another value)
BuyerRetryInit(s) ==
  /\ reqs[s].op = "buyer.retry" /\ reqs[s].pc = "init"
  /\ LET r == reqs[s]
     IN \E ok \in BOOLEAN :
          IF ok
            THEN /\ orders' = IF r.paymentStatus # "pending"
                              THEN [orders EXCEPT ![r.o].paymentStatus = "pending"]
                              ELSE orders
                 /\ Goto(s, [r EXCEPT !.pc = "save"])
                 /\ last' = Step("buyer.retry", r.t, "order_pending")
            ELSE /\ UNCHANGED orders
                 /\ Finish(s)
                 /\ last' = Step("buyer.retry", r.t, "reinit_failed")
  /\ UNCHANGED <<txs, tickets, tier, event, disputes, gatewayInit,
                 completions, scanLog>>

\* transaction.save() of status = "processing" and retryCount += 1 on the copy
BuyerRetrySave(s) ==
  /\ reqs[s].op = "buyer.retry" /\ reqs[s].pc = "save"
  /\ LET r == reqs[s]
     IN /\ txs' = [txs EXCEPT ![r.t].status = "processing",
                              ![r.t].retryCount = r.retryCount + 1]
        /\ last' = Step("buyer.retry", r.t, "processing")
  /\ Finish(s)
  /\ UNCHANGED <<orders, tickets, tier, event, disputes, gatewayInit,
                 completions, scanLog>>


----------------------------------------------------------------------------
(* Refunds *)

\* bound of the model: a Transaction takes at most MaxRefunds refund records
RoomForRefund(t) == Len(txs[t].refunds) < MaxRefunds

\* POST /api/transactions/:id/refund : transactionController.refundTransaction,
\* Transaction.findById, isRefundable() and the amount check
AdminRefundLoad(s, t, amount) ==
  /\ Free(s)
  /\ t \in TxIds
  /\ LET tx == txs[t]
         refundAmount == IF amount # 0 THEN amount ELSE netAmount(tx)
     IN IF ~isRefundable(tx)
          THEN /\ UNCHANGED reqs
               /\ last' = Step("admin.refund", t, "not_refundable")
          ELSE IF refundAmount > netAmount(tx)
            THEN /\ UNCHANGED reqs
                 /\ last' = Step("admin.refund", t, "exceeds_net")
            ELSE /\ RoomForRefund(t)
                 /\ Goto(s, [op |-> "admin.refund", pc |-> "save", t |-> t,
                             refundAmount |-> refundAmount,
                             totalRefunded |-> tx.totalRefunded,
                             amount |-> tx.amount])
                 /\ last' = NoStep
  /\ UNCHANGED <<db, gatewayInit, completions, scanLog>>

\* transaction.save(): $push of the refund record, totalRefunded and status of the
\* copy, then logTransaction("transaction.refund", transaction, req.user)
AdminRefundSave(s) ==
  /\ reqs[s].op = "admin.refund" /\ reqs[s].pc = "save"
  /\ LET r == reqs[s]
         newStatus == IF r.refundAmount >= r.amount
                        THEN "refunded" ELSE "partially_refunded"
     IN /\ RoomForRefund(r.t)
        /\ txs' = [txs EXCEPT
              ![r.t].refunds = Append(@, r.refundAmount),
              ![r.t].totalRefunded = r.totalRefunded + r.refundAmount,
              ![r.t].status = newStatus]
        /\ \E out \in Audited(ReqUser, newStatus) :
             last' = Step("admin.refund", r.t, out)
  /\ Finish(s)
  /\ UNCHANGED <<orders, tickets, tier, event, disputes, gatewayInit,
                 completions, scanLog>>

\* A refund that also gives the refunded amount and seats back to the counters
ServiceRefundReleasing(s, t, amount) ==
  /\ Free(s)
  /\ t \in TxIds
  /\ LET tx == txs[t]
         refundAmount == IF amount # 0 THEN amount ELSE netAmount(tx)
         totalRefunded == tx.totalRefunded + refundAmount
         isFullRefund == totalRefunded >= tx.amount
         newStatus == IF isFullRefund THEN "refunded" ELSE "partially_refunded"
     IN IF ~canRefund(tx, amount)
          THEN /\ UNCHANGED db
               /\ last' = Step("service.refund", t, "cannot_refund")
          ELSE IF ~validateStateTransition(tx.status, newStatus)
            THEN /\ UNCHANGED db
                 /\ last' = Step("service.refund", t, "cannot_transition")
            ELSE /\ RoomForRefund(t)
                 /\ txs' = [txs EXCEPT ![t].refunds = Append(@, refundAmount),
                                       ![t].totalRefunded = totalRefunded,
                                       ![t].status = newStatus]
                 /\ orders' = IF isFullRefund
                                THEN [orders EXCEPT ![tx.order].paymentStatus = "refunded"]
                                ELSE orders
                 /\ tier' = IF isFullRefund
                              THEN [tier EXCEPT !.soldCount = @ - tx.quantity]
                              ELSE tier
                 /\ event' = [event EXCEPT !.totalRevenue = @ - refundAmount]
                 /\ UNCHANGED <<tickets, disputes>>
                 /\ last' = Step("service.refund", t, newStatus)
  /\ UNCHANGED <<reqs, gatewayInit, completions, scanLog>>

\* TransactionService.refundTransaction: the session callback
ServiceRefund(s, t, amount) ==
  /\ Free(s)
  /\ t \in TxIds
  /\ LET tx == txs[t]
         refundAmount == IF amount # 0 THEN amount ELSE netAmount(tx)
         totalRefunded == tx.totalRefunded + refundAmount
         isFullRefund == totalRefunded >= tx.amount
         newStatus == IF isFullRefund THEN "refunded" ELSE "partially_refunded"
     IN IF ~canRefund(tx, amount)
          THEN /\ UNCHANGED db
               /\ last' = Step("service.refund", t, "cannot_refund")
          ELSE IF ~validateStateTransition(tx.status, newStatus)
            THEN /\ UNCHANGED db
                 /\ last' = Step("service.refund", t, "cannot_transition")
            ELSE /\ RoomForRefund(t)
                 /\ txs' = [txs EXCEPT ![t].refunds = Append(@, refundAmount),
                                       ![t].totalRefunded = totalRefunded,
                                       ![t].status = newStatus]
                 /\ orders' = IF isFullRefund
                                THEN [orders EXCEPT ![tx.order].paymentStatus = "refunded"]
                                ELSE orders
                 /\ UNCHANGED <<tickets, tier, event, disputes>>
                 /\ last' = Step("service.refund", t, newStatus)
  /\ UNCHANGED <<reqs, gatewayInit, completions, scanLog>>

----------------------------------------------------------------------------
(* Disputes: disputeController.createDispute and resolveDispute *)

OpenDisputes(o) == {d \in 1..Len(disputes) :
                      disputes[d].order = o /\ disputes[d].status = "open"}

\* POST /api/disputes : one open dispute per order
CreateDispute(s, o) ==
  /\ Free(s)
  /\ o \in OrderIds
  /\ Len(disputes) < MaxDisputes
  /\ OpenDisputes(o) = {}
  /\ disputes' = Append(disputes, [order |-> o, status |-> "open"])
  /\ last' = Step("dispute.create", o, "open")
  /\ UNCHANGED <<txs, orders, tickets, tier, event, reqs, gatewayInit,
                 completions, scanLog>>

\* POST /api/disputes/:id/resolve : the dispute is closed and saved, then
\* Transaction.findOne({ order: dispute.order }) when refundAmount > 0
ResolveDisputeLoad(s, d, refundAmount) ==
  /\ Free(s)
  /\ d \in 1..Len(disputes)
  /\ IF disputes[d].status # "open"
       THEN /\ UNCHANGED <<disputes, reqs>>
            /\ last' = Step("dispute.resolve", 0, "already_closed")
       ELSE /\ disputes' = [disputes EXCEPT ![d].status = "resolved"]
            /\ LET found == findByOrder(disputes[d].order)
               IN IF refundAmount > 0 /\ found # {}
                    THEN LET t == CHOOSE x \in found : TRUE
                         IN /\ RoomForRefund(t)
                            /\ Goto(s, [op |-> "dispute.resolve", pc |-> "save",
                                        t |-> t, refundAmount |-> refundAmount,
                                        totalRefunded |-> txs[t].totalRefunded,
                                        amount |-> txs[t].amount,
                                        status |-> txs[t].status])
                            /\ last' = NoStep
                    ELSE /\ UNCHANGED reqs
                         /\ last' = Step("dispute.resolve", 0, "no_refund")
  /\ UNCHANGED <<txs, orders, tickets, tier, event, gatewayInit, completions,
                 scanLog>>

\* transaction.save(): $push of the refund record, totalRefunded of the copy, and
\* status when the copy's status changed
ResolveDisputeSave(s) ==
  /\ reqs[s].op = "dispute.resolve" /\ reqs[s].pc = "save"
  /\ LET r == reqs[s]
         totalRefunded == r.totalRefunded + r.refundAmount
         newStatus == IF totalRefunded >= r.amount
                        THEN "refunded" ELSE "partially_refunded"
     IN /\ RoomForRefund(r.t)
        /\ txs' = [txs EXCEPT
              ![r.t].refunds = Append(@, r.refundAmount),
              ![r.t].totalRefunded = totalRefunded,
              ![r.t].status = IF newStatus # r.status THEN newStatus ELSE @]
        /\ last' = Step("dispute.resolve", r.t, "refund_recorded")
  /\ Finish(s)
  /\ UNCHANGED <<orders, tickets, tier, event, disputes, gatewayInit,
                 completions, scanLog>>


----------------------------------------------------------------------------
(* POST /api/validate/scan : scanTicket *)

\* the event of every Ticket of the model, and the events a validator may be
\* assigned to
TicketEvent == 1
ScanEvents == {TicketEvent, 2}
\* the roles roleAuth(["validator", "admin"]) lets through
ScannerRoles == {"validator", "admin"}

\* the assignment test as it would be for a validator with any assignment
isAssignedToAny(assignedEvents) == assignedEvents # {}

\* Step 4: req.user.assignedEvents.some(e => e.toString() === ticket.event._id.toString())
isAssigned(assignedEvents) == TicketEvent \in assignedEvents

\* Steps 2 to 5: Ticket.findOne({ qrCode }), the event and assignment checks, the
\* status checks.  eventMatches: no eventId was sent or it is the ticket's event.
ScanLoad(s, k, user, eventMatches, role, assignedEvents) ==
  /\ Free(s)
  /\ k \in TicketIds
  /\ LET answer(status) ==
           /\ last' = Step("scan", k, status)
           /\ UNCHANGED reqs
     IN IF ~eventMatches THEN answer("WRONG_EVENT")
        ELSE IF role = "validator" /\ ~isAssigned(assignedEvents)
          THEN answer("NOT_ASSIGNED")
        ELSE IF tickets[k].status = "used" THEN answer("ALREADY_USED")
        ELSE IF tickets[k].status = "cancelled" THEN answer("CANCELLED")
        ELSE /\ Goto(s, [op |-> "scan", pc |-> "update", k |-> k, user |-> user,
                         role |-> role, assignedEvents |-> assignedEvents])
             /\ last' = NoStep
  /\ UNCHANGED <<db, gatewayInit, completions, scanLog>>

\* the filter as it would be by _id alone
findOneAndUpdateById(k) == k \in TicketIds

\* Step 6: the filter of Ticket.findOneAndUpdate({ _id, status: "valid" }, ...)
findOneAndUpdateValid(k) == tickets[k].status = "valid"

\* Step 6 and 7: the update decides between VALID and RACE_CONDITION
ScanUpdate(s) ==
  /\ reqs[s].op = "scan" /\ reqs[s].pc = "update"
  /\ LET r == reqs[s]
     IN IF findOneAndUpdateValid(r.k)
          THEN /\ tickets' = [tickets EXCEPT ![r.k].status = "used",
                                             ![r.k].checkedInBy = r.user]
               /\ scanLog' = [scanLog EXCEPT ![r.k] = Append(@, r.user)]
               /\ last' = Step("scan", r.k, "VALID")
          ELSE /\ UNCHANGED <<tickets, scanLog>>
               /\ last' = Step("scan", r.k, "RACE_CONDITION")
  /\ Finish(s)
  /\ UNCHANGED <<txs, orders, tier, event, disputes, gatewayInit, completions>>

----------------------------------------------------------------------------
(* POST /api/reconciliation/fix and /run : reconciliationController *)

\* Ticket.countDocuments({ event, status: { $ne: "cancelled" } })
actualCount == Cardinality({k \in TicketIds : tickets[k].status # "cancelled"})

\* Order.aggregate: $sum of totalAmount over the event's completed orders
actualRevenue ==
  SumSeq([o \in OrderIds |-> IF orders[o].paymentStatus = "completed"
                               THEN orders[o].totalAmount ELSE 0])

\* fixMismatch, case "event_ticket_count_mismatch": the count
FixMismatchCount(s) ==
  /\ Free(s)
  /\ Goto(s, [op |-> "reconcile.fix", pc |-> "update", actualCount |-> actualCount])
  /\ last' = NoStep
  /\ UNCHANGED <<db, gatewayInit, completions, scanLog>>

\* fixMismatch: Event.findByIdAndUpdate(entityId, { totalTicketsSold: actualCount })
FixMismatchUpdate(s) ==
  /\ reqs[s].op = "reconcile.fix" /\ reqs[s].pc = "update"
  /\ event' = [event EXCEPT !.totalTicketsSold = reqs[s].actualCount]
  /\ last' = Step("reconcile.fix", 0, "fixed")
  /\ Finish(s)
  /\ UNCHANGED <<txs, orders, tickets, tier, disputes, gatewayInit,
                 completions, scanLog>>

\* runReconciliation: Event.find({})
ReconcileLoad(s) ==
  /\ Free(s)
  /\ Goto(s, [op |-> "reconcile.run", pc |-> "count", event |-> event])
  /\ last' = NoStep
  /\ UNCHANGED <<db, gatewayInit, completions, scanLog>>

\* runReconciliation: the ticket count of the event
ReconcileCount(s) ==
  /\ reqs[s].op = "reconcile.run" /\ reqs[s].pc = "count"
  /\ Goto(s, [op |-> "reconcile.run", pc |-> "revenue", event |-> reqs[s].event,
              actualCount |-> actualCount])
  /\ last' = NoStep
  /\ UNCHANGED <<db, gatewayInit, completions, scanLog>>

\* runReconciliation: the revenue of the event, compared with the loaded copy
ReconcileRevenue(s) ==
  /\ reqs[s].op = "reconcile.run" /\ reqs[s].pc = "revenue"
  /\ LET r == reqs[s]
     IN IF r.event.totalTicketsSold # r.actualCount
            \/ r.event.totalRevenue # actualRevenue
          THEN /\ Goto(s, [op |-> "reconcile.run", pc |-> "update",
                           actualCount |-> r.actualCount,
                           revenue |-> actualRevenue])
               /\ last' = NoStep
          ELSE /\ Finish(s)
               /\ last' = Step("reconcile.run", 0, "clean")
  /\ UNCHANGED <<db, gatewayInit, completions, scanLog>>

\* runReconciliation: Event.findByIdAndUpdate of both totals
ReconcileUpdate(s) ==
  /\ reqs[s].op = "reconcile.run" /\ reqs[s].pc = "update"
  /\ event' = [event EXCEPT !.totalTicketsSold = reqs[s].actualCount,
                            !.totalRevenue = reqs[s].revenue]
  /\ last' = Step("reconcile.run", 0, "fixed")
  /\ Finish(s)
  /\ UNCHANGED <<txs, orders, tickets, tier, disputes, gatewayInit,
                 completions, scanLog>>

\* getMismatches: the completed orders with no completed Transaction, which it
\* reports as "order_missing_transaction"
orderMissingTransaction ==
  {o \in OrderIds :
     /\ orders[o].paymentStatus = "completed"
     /\ ~ \E t \in TxIds : txs[t].order = o /\ txs[t].status = "completed"}

\* idempotencyKey: `recovery-${order._id}-${Date.now()}`
recoveryKey == 0 - (Len(txs) + 1)

\* fixMismatch, case "order_missing_transaction", on an order that getMismatches
\* reported: Order.findById(entityId)
FixMissingTransactionLoad(s, o) ==
  /\ Free(s)
  /\ o \in orderMissingTransaction
  /\ Len(txs) < MaxTx
  /\ Goto(s, [op |-> "reconcile.recover", pc |-> "save", order |-> o,
              amount |-> orders[o].totalAmount])
  /\ last' = NoStep
  /\ UNCHANGED <<db, gatewayInit, completions, scanLog>>

\* fixMismatch: new Transaction({ status: "completed", order, amount }).save()
FixMissingTransactionSave(s) ==
  /\ reqs[s].op = "reconcile.recover" /\ reqs[s].pc = "save"
  /\ Len(txs) < MaxTx
  /\ txs' = Append(txs, [ idempotencyKey |-> recoveryKey, status |-> "completed",
                          order |-> reqs[s].order, amount |-> reqs[s].amount,
                          quantity |-> 0, retryCount |-> 0,
                          maxRetries |-> DefaultMaxRetries,
                          nextRetryAt |-> "null",
                          refunds |-> <<>>, totalRefunded |-> 0 ])
  /\ completions' = Append(completions, 0)
  /\ last' = Step("reconcile.recover", Len(txs) + 1, "fixed")
  /\ Finish(s)
  /\ UNCHANGED <<orders, tickets, tier, event, disputes, gatewayInit, scanLog>>

----------------------------------------------------------------------------
(* QRService.generateTicketToken and verifyTicketToken *)

\* The ids and times a token is made of: ticket ids are strings, event ids are
\* ObjectIds, iat is Date.now()
TokenTicketIds == {"t1", "t2"}
TokenEventIds == {1, 2}
TokenTimes == {1, 2}

\* eventId.toString()
ObjectIdToString(id) == ToString(id)

\* JSON.stringify of an object: its members in insertion order
dataString(members) == members

\* crypto.createHmac("sha256", SECRET_KEY).update(dataString).digest("hex")
\* .substring(0, 16), taken to be free of collisions
HmacSha256(data) == <<"hmac", data>>

\* Texts of one JSON object: as JSON.stringify writes it, with white space
\* between the members, with the sig member first, with eid before tid
Layouts == {"compact", "spaced", "sigFirst", "eidFirst"}

\* base64url texts of the same bytes: as toString("base64url") writes it, and
\* with trailing "=" padding
Paddings == {"none", "padded"}

\* What a token is: the base64url text of a JSON object, or something that
\* makes the decoding, the parsing or the destructuring throw
Forms == {"object", "notBase64Json", "jsonNull", "notAString"}

\* A signature made without the secret
Forged == <<"forged">>

\* generateTicketToken
generateTicketToken(ticketId, eventId, iat) ==
  LET payload == <<<<"tid", ticketId>>, <<"eid", ObjectIdToString(eventId)>>,
                   <<"iat", ToString(iat)>>>>
  IN [tid |-> ticketId, eid |-> ObjectIdToString(eventId), iat |-> iat,
      sig |-> HmacSha256(dataString(payload)),
      layout |-> "compact", padding |-> "none", form |-> "object"]

\* JSON.parse(Buffer.from(token, "base64url").toString()) and
\* const { sig, ...payload } = decoded: the padding and the white space are
\* gone, the members of payload keep the order they had in the text
decodedPayload(token) ==
  IF token.layout = "eidFirst"
    THEN <<<<"eid", token.eid>>, <<"tid", token.tid>>,
           <<"iat", ToString(token.iat)>>>>
    ELSE <<<<"tid", token.tid>>, <<"eid", token.eid>>,
           <<"iat", ToString(token.iat)>>>>

\* verifyTicketToken comparing sig with the HMAC of another text than the payload's
verifyOverDecoded(token) ==
  IF token.form # "object"
    THEN [valid |-> FALSE, error |-> "Malformed token"]
    ELSE IF token.sig # HmacSha256(dataString(<<<<"sig", "">>>> \o decodedPayload(token)))
      THEN [valid |-> FALSE, error |-> "Invalid signature - potential fake ticket"]
      ELSE [valid |-> TRUE, ticketId |-> token.tid, eventId |-> token.eid,
            issuedAt |-> token.iat]

\* verifyTicketToken: what throws inside the try is answered "Malformed token"
verifyTicketToken(token) ==
  IF token.form # "object"
    THEN [valid |-> FALSE, error |-> "Malformed token"]
    ELSE IF token.sig # HmacSha256(dataString(decodedPayload(token)))
      THEN [valid |-> FALSE, error |-> "Invalid signature - potential fake ticket"]
      ELSE [valid |-> TRUE, ticketId |-> token.tid, eventId |-> token.eid,
            issuedAt |-> token.iat]

\* A ticket is issued: its token is in the holder's hands
IssueToken(s, ticketId, eventId, iat) ==
  /\ Free(s)
  /\ Goto(s, [op |-> "qr", ticketId |-> ticketId, eventId |-> eventId, iat |-> iat,
              token |-> generateTicketToken(ticketId, eventId, iat)])
  /\ last' = NoStep
  /\ UNCHANGED <<db, gatewayInit, completions, scanLog>>

\* The holder changes the token, without the secret: a field, the signature,
\* the JSON text, the base64url text, or all of it
MutateToken(s, field, value) ==
  /\ reqs[s].op = "qr"
  /\ reqs[s].token.form = "object"
  /\ \/ field = "tid" /\ value \in TokenTicketIds
     \/ field = "eid" /\ value \in {ObjectIdToString(e) : e \in TokenEventIds}
     \/ field = "iat" /\ value \in TokenTimes
     \/ field = "sig" /\ value = Forged
     \/ field = "layout" /\ value \in Layouts
     \/ field = "padding" /\ value \in Paddings
     \/ field = "form" /\ value \in Forms
  /\ Goto(s, [reqs[s] EXCEPT !.token[field] = value])
  /\ last' = NoStep
  /\ UNCHANGED <<db, gatewayInit, completions, scanLog>>

\* The token is presented and verified
VerifyToken(s) ==
  /\ reqs[s].op = "qr"
  /\ last' = [op |-> "qr.verify", t |-> 0,
              out |-> IF verifyTicketToken(reqs[s].token).valid
                        THEN "valid" ELSE "invalid",
              result |-> verifyTicketToken(reqs[s].token),
              issued |-> [ticketId |-> reqs[s].ticketId,
                          eventId |-> reqs[s].eventId, iat |-> reqs[s].iat],
              token |-> reqs[s].token]
  /\ Finish(s)
  /\ UNCHANGED <<db, gatewayInit, completions, scanLog>>

----------------------------------------------------------------------------
(* PaystackService.calculateSplit *)

\* organizerPercentage = 90
DefaultOrganizerPercentage == 90
Percentages == 0..100
SplitTotals == 0..MaxSplitTotal

\* Math.floor of a quotient of non-negative integers
floor(numerator, denominator) == numerator \div denominator

\* the split as it would be with the organizer's share rounded up
calculateSplitRoundingUp(totalAmount, organizerPercentage) ==
  LET organizerAmount ==
        floor(totalAmount * organizerPercentage + 99, 100)
  IN [organizerAmount |-> organizerAmount,
      platformAmount |-> totalAmount - organizerAmount]

\* calculateSplit(totalAmount, organizerPercentage = 90)
calculateSplit(totalAmount, organizerPercentage) ==
  LET organizerAmount == floor(totalAmount * organizerPercentage, 100)
  IN [organizerAmount |-> organizerAmount,
      platformAmount |-> totalAmount - organizerAmount]

\* a caller computes the split of a total
CalculateSplit(s, totalAmount, organizerPercentage) ==
  /\ Free(s)
  /\ last' = [op |-> "calculateSplit", t |-> 0, out |-> "split",
              totalAmount |-> totalAmount,
              organizerPercentage |-> organizerPercentage,
              splits |-> calculateSplit(totalAmount, organizerPercentage)]
  /\ UNCHANGED <<db, reqs, gatewayInit, completions, scanLog>>

----------------------------------------------------------------------------
(* DELETE /api/events/:id and POST /api/events/:id/cancel : eventController *)

\* deleteEvent: Event.findById and the already-deleted check.  The handler is the
\* only writer of deletedAt; the controller defines it beside cancelEvent.
DeleteEventLoad(s) ==
  /\ Free(s)
  /\ IF event.deletedAt # "null"
       THEN /\ UNCHANGED reqs
            /\ last' = Step("event.delete", 0, "already_deleted")
       ELSE /\ Goto(s, [op |-> "event.delete", pc |-> "save"])
            /\ last' = NoStep
  /\ UNCHANGED <<db, gatewayInit, completions, scanLog>>

\* deleteEvent: event.deletedAt = new Date(); event.save()
DeleteEventSave(s) ==
  /\ reqs[s].op = "event.delete" /\ reqs[s].pc = "save"
  /\ event' = [event EXCEPT !.deletedAt = "date"]
  /\ last' = Step("event.delete", 0, "deleted")
  /\ Finish(s)
  /\ UNCHANGED <<txs, orders, tickets, tier, disputes, gatewayInit,
                 completions, scanLog>>

\* cancelEvent: Event.findById
CancelEventLoad(s) ==
  /\ Free(s)
  /\ Goto(s, [op |-> "event.cancel", pc |-> "save"])
  /\ last' = NoStep
  /\ UNCHANGED <<db, gatewayInit, completions, scanLog>>

\* cancelEvent: event.status = "cancelled"; event.save()
CancelEventSave(s) ==
  /\ reqs[s].op = "event.cancel" /\ reqs[s].pc = "save"
  /\ event' = [event EXCEPT !.status = "cancelled"]
  /\ last' = Step("event.cancel", 0, "cancelled")
  /\ Finish(s)
  /\ UNCHANGED <<txs, orders, tickets, tier, disputes, gatewayInit,
                 completions, scanLog>>

----------------------------------------------------------------------------
(* States the database is in after purchases, as initializePurchase leaves it *)

\* n Orders with their Transactions, all initiated, for the quantities qs
Purchased(qs) ==
  /\ orders = [i \in 1..Len(qs) |-> NewOrder(qs[i])]
  /\ txs = [i \in 1..Len(qs) |-> NewTransaction(i, i, qs[i])]
  /\ completions = [i \in 1..Len(qs) |-> 0]

\* Purchasable quantities: 1..tier.quantity as long as nothing is sold
OnSale == 1..TierQuantity

NoRequests ==
  /\ tier = [quantity |-> TierQuantity, soldCount |-> 0,
             maxPerUser |-> DefaultMaxPerUser, price |-> TierPrice]
  /\ event = [totalTicketsSold |-> 0, totalRevenue |-> 0,
              status |-> "published", deletedAt |-> "null"]
  /\ tickets = <<>>
  /\ disputes = <<>>
  /\ reqs = [s \in Slots |-> Idle]
  /\ scanLog = [k \in 1..MaxTickets |-> <<>>]
  /\ last = NoStep

\* one purchase made, with idempotency key 1
InitOrder ==
  /\ NoRequests
  /\ \E q \in OnSale : Purchased(<<q>>)
  /\ gatewayInit = [k \in ClientKeys |-> IF k = 1 THEN 1 ELSE 0]

\* one purchase paid after a failed first attempt and a retry: its Tickets exist
InitTickets ==
  /\ tier = [quantity |-> TierQuantity, soldCount |-> TierQuantity,
             maxPerUser |-> DefaultMaxPerUser, price |-> TierPrice]
  /\ event = [totalTicketsSold |-> TierQuantity,
              totalRevenue |-> TierPrice * TierQuantity,
              status |-> "published", deletedAt |-> "null"]
  /\ tickets = ticketGenerator(1, TierQuantity)
  /\ orders = <<[NewOrder(TierQuantity) EXCEPT
                   !.paymentStatus = "completed",
                   !.tickets = [i \in 1..TierQuantity |-> i]]>>
  /\ txs = <<[NewTransaction(1, 1, TierQuantity) EXCEPT
                !.status = "completed", !.retryCount = 1]>>
  /\ completions = <<1>>
  /\ disputes = <<>>
  /\ reqs = [s \in Slots |-> Idle]
  /\ gatewayInit = [k \in ClientKeys |-> IF k = 1 THEN 1 ELSE 0]
  /\ scanLog = [k \in 1..MaxTickets |-> <<>>]
  /\ last = NoStep

\* an empty database whose tier was created with a maxPerUser below the default
InitLimited ==
  /\ txs = <<>>
  /\ orders = <<>>
  /\ completions = <<>>
  /\ gatewayInit = [k \in ClientKeys |-> 0]
  /\ tickets = <<>>
  /\ \E maxPerUser \in 1..TierQuantity :
       tier = [quantity |-> TierQuantity, soldCount |-> 0,
               maxPerUser |-> maxPerUser, price |-> TierPrice]
  /\ event = [totalTicketsSold |-> 0, totalRevenue |-> 0,
              status |-> "published", deletedAt |-> "null"]
  /\ disputes = <<>>
  /\ reqs = [s \in Slots |-> Idle]
  /\ scanLog = [k \in 1..MaxTickets |-> <<>>]
  /\ last = NoStep

\* the Tickets of InitTickets, each valid or cancelled: the status enum of the
\* Ticket schema; no operation modelled here writes "cancelled"
InitCancelled ==
  /\ \E cancelled \in SUBSET (1..TierQuantity) :
       tickets = [k \in 1..TierQuantity |->
                    IF k \in cancelled
                      THEN [NewTicket(1) EXCEPT !.status = "cancelled"]
                      ELSE NewTicket(1)]
  /\ tier = [quantity |-> TierQuantity, soldCount |-> TierQuantity,
             maxPerUser |-> DefaultMaxPerUser, price |-> TierPrice]
  /\ event = [totalTicketsSold |-> TierQuantity,
              totalRevenue |-> TierPrice * TierQuantity,
              status |-> "published", deletedAt |-> "null"]
  /\ orders = <<[NewOrder(TierQuantity) EXCEPT
                   !.paymentStatus = "completed",
                   !.tickets = [i \in 1..TierQuantity |-> i]]>>
  /\ txs = <<[NewTransaction(1, 1, TierQuantity) EXCEPT
                !.status = "completed", !.retryCount = 1]>>
  /\ completions = <<1>>
  /\ disputes = <<>>
  /\ reqs = [s \in Slots |-> Idle]
  /\ gatewayInit = [k \in ClientKeys |-> IF k = 1 THEN 1 ELSE 0]
  /\ scanLog = [k \in 1..MaxTickets |-> <<>>]
  /\ last = NoStep


----------------------------------------------------------------------------
(* Next-state relations, over the slots S that requests may take *)

\* requests served one at a time: a handler answers before the next one starts
Serial == {1}

NextPurchase(S) ==
  \/ \E s \in S, key \in ClientKeys \cup {NoKey}, q \in Quantities :
       PurchaseLookup(s, key, q)
  \/ \E s \in S : PurchaseValidate(s)
  \/ \E s \in S : PurchaseCreate(s)

NextPayment(S) ==
  \/ \E s \in S, t \in TxIds : VerifyLookup(s, t)
  \/ \E s \in S, paidAmount \in PaidAmounts : VerifyGateway(s, paidAmount)
  \/ \E s \in S, t \in TxIds : ChargeSuccessLookup(s, t)
  \/ \E s \in S, paidAmount \in PaidAmounts : ChargeSuccessComplete(s, paidAmount)
  \/ \E s \in S, t \in TxIds : ChargeFailedLookup(s, t)
  \/ \E s \in S : ChargeFailedFail(s)
  \/ \E s \in S, t \in TxIds : AdminRetryLoad(s, t)
  \/ \E s \in S : AdminRetrySave(s)
  \/ \E s \in S : AdminRetryInit(s)
  \/ \E s \in S, o \in OrderIds : BuyerRetryLoad(s, o)
  \/ \E s \in S : BuyerRetryInit(s)
  \/ \E s \in S : BuyerRetrySave(s)

NextRefund(S) ==
  \/ \E s \in S, t \in TxIds, a \in RefundInputs : AdminRefundLoad(s, t, a)
  \/ \E s \in S : AdminRefundSave(s)
  \/ \E s \in S, t \in TxIds, a \in RefundInputs : ServiceRefund(s, t, a)
  \/ \E s \in S, o \in OrderIds : CreateDispute(s, o)
  \/ \E s \in S, d \in 1..Len(disputes), a \in RefundInputs :
       ResolveDisputeLoad(s, d, a)
  \/ \E s \in S : ResolveDisputeSave(s)

NextScan(S) ==
  \/ \E s \in S, k \in TicketIds, u \in Scanners, e \in BOOLEAN,
        role \in ScannerRoles, assignedEvents \in SUBSET ScanEvents :
       ScanLoad(s, k, u, e, role, assignedEvents)
  \/ \E s \in S : ScanUpdate(s)

NextReconcile(S) ==
  \/ \E s \in S : FixMismatchCount(s)
  \/ \E s \in S : FixMismatchUpdate(s)
  \/ \E s \in S : ReconcileLoad(s)
  \/ \E s \in S : ReconcileCount(s)
  \/ \E s \in S : ReconcileRevenue(s)
  \/ \E s \in S : ReconcileUpdate(s)

NextWebhook(S) ==
  \/ \E s \in S, secretKey \in {NoSecret, ServerSecret}, raw \in RawBodies,
        signature \in Signatures, eventType \in EventTypes, hasData \in BOOLEAN,
        reference \in {UnknownReference} \cup TxIds :
       WebhookReceive(s, secretKey, raw, signature, eventType, hasData, reference)
  \/ \E s \in S : WebhookFind(s)
  \/ \E s \in S : WebhookApply(s)
  \/ \E s \in S : WebhookAudit(s)
  \/ \E s \in S : WebhookRespond(s)
  \/ \E s \in S, t \in TxIds : AdminRetryLoad(s, t)
  \/ \E s \in S : AdminRetrySave(s)
  \/ \E s \in S : AdminRetryInit(s)

TokenTextFields == {"tid", "eid", "layout", "padding", "form"}
TokenTexts ==
  TokenTicketIds \cup {ObjectIdToString(e) : e \in TokenEventIds}
    \cup Layouts \cup Paddings \cup Forms

NextToken(S) ==
  \/ \E s \in S, ticketId \in TokenTicketIds, eventId \in TokenEventIds,
        iat \in TokenTimes : IssueToken(s, ticketId, eventId, iat)
  \/ \E s \in S, field \in TokenTextFields, value \in TokenTexts :
       MutateToken(s, field, value)
  \/ \E s \in S, value \in TokenTimes : MutateToken(s, "iat", value)
  \/ \E s \in S : MutateToken(s, "sig", Forged)
  \/ \E s \in S : VerifyToken(s)

NextEvent(S) ==
  \/ \E s \in S : DeleteEventLoad(s)
  \/ \E s \in S : DeleteEventSave(s)
  \/ \E s \in S : CancelEventLoad(s)
  \/ \E s \in S : CancelEventSave(s)

NextServiceRetry(S) ==
  \/ \E s \in S, t \in TxIds : ServiceRetryLoad(s, t)
  \/ \E s \in S : ServiceRetrySave(s)
  \/ \E s \in S : ServiceRetryInit(s)

NextServiceRefund(S) ==
  \E s \in S, t \in TxIds, a \in RefundInputs : ServiceRefund(s, t, a)

NextSplit(S) ==
  \/ \E s \in S, totalAmount \in SplitTotals :
       CalculateSplit(s, totalAmount, DefaultOrganizerPercentage)
  \/ \E s \in S, totalAmount \in SplitTotals, organizerPercentage \in Percentages :
       CalculateSplit(s, totalAmount, organizerPercentage)

NextRecover(S) ==
  \/ \E s \in S, o \in OrderIds : FixMissingTransactionLoad(s, o)
  \/ \E s \in S : FixMissingTransactionSave(s)

Next == NextPayment(Serial) \/ NextRefund(Serial)

\* One order, its payment, refunds and disputes, requests one at a time
Spec == InitOrder /\ [][Next]_vars

\* One order and its payment, requests in flight together
RaceSpec == InitOrder /\ [][NextPayment(Slots)]_vars

\* Purchases and payments from the empty database, requests one at a time
SalesSpec == Init /\ [][NextPurchase(Serial) \/ NextPayment(Serial)]_vars

\* Purchases in flight together, from the empty database
PurchaseSpec == Init /\ [][NextPurchase(Slots)]_vars

\* Scans in flight together at the gate, of the Tickets of a paid order
ScanSpec == InitTickets /\ [][NextScan(Slots)]_vars

\* One order, its payment and refunds, and the admin's fixes of the mismatches
\* reported on it, requests one at a time
RecoverSpec ==
  InitOrder /\ [][NextPayment(Serial) \/ NextRefund(Serial) \/ NextRecover(Serial)]_vars

\* One order, the gateway's webhooks about it and the admin's retries, requests
\* one at a time
WebhookSpec == InitOrder /\ [][NextWebhook(Serial)]_vars

\* Tokens issued, changed by their holder and verified, one at a time
TokenSpec == Init /\ [][NextToken(Serial)]_vars

\* One order and its payment through the API and through the webhook, requests
\* one at a time
AuditSpec == InitOrder /\ [][Next \/ NextWebhook(Serial)]_vars

\* Scans in flight together, and refunds, on Tickets of which some are cancelled
CancelledSpec ==
  InitCancelled /\ [][NextScan(Slots) \/ NextServiceRefund(Serial)]_vars

\* The split of every total at every percentage
SplitSpec == Init /\ [][NextSplit(Serial)]_vars

\* Purchases and payments of one user on a tier with a low maxPerUser, requests
\* one at a time
LimitSpec == InitLimited /\ [][NextPurchase(Serial) \/ NextPayment(Serial)]_vars

\* One order and its payment with the three retry paths, requests one at a time
RetrySpec == InitOrder /\ [][NextPayment(Serial) \/ NextServiceRetry(Serial)]_vars

\* Purchases of an event that its organizer may cancel or delete, requests one
\* at a time
EventSpec == Init /\ [][NextPurchase(Serial) \/ NextEvent(Serial)]_vars

\* One order and its payment, with the admin's reconciliation in flight
ReconcileSpec == InitOrder /\ [][NextPayment(Slots) \/ NextReconcile(Slots)]_vars

----------------------------------------------------------------------------
(* Properties *)

\* Ticket.find({ order })
TicketsOf(o) == {k \in TicketIds : tickets[k].order = o}

\* C1: a verify call for which the gateway reports success, on a Transaction that
\* Initiate left in status initiated with its Order pending, ends with the
\* Transaction and the Order completed, soldCount and totalTicketsSold raised by
\* the order's quantity, totalRevenue by its totalAmount, and exactly quantity
\* Tickets of the order.  (The gateway reported success when verifyPayment went
\* on to completeTransaction.)
C1_HappyPurchase ==
  [][\A t \in TxIds :
       ( /\ txs[t].status = "initiated"
         /\ orders[txs[t].order].paymentStatus = "pending"
         /\ last'.op = "verify" /\ last'.t = t
         /\ last'.out \in {"completed", "cannot_complete"} )
       => LET o == txs[t].order
              q == orders[o].quantity
          IN /\ txs'[t].status = "completed"
             /\ orders'[o].paymentStatus = "completed"
             /\ tier'.soldCount = tier.soldCount + q
             /\ event'.totalTicketsSold = event.totalTicketsSold + q
             /\ event'.totalRevenue = event.totalRevenue + orders[o].totalAmount
             /\ Cardinality({k \in 1..Len(tickets') : tickets'[k].order = o}) = q
    ]_vars

\* C2: whatever Complete invocations ran for a Transaction (verify and
\* charge.success, in any interleaving), once one of them has committed the order
\* has exactly quantity Tickets and the tier's soldCount was raised for it
\* exactly once.
C2_CompleteOnce ==
  \A t \in TxIds :
    completions[t] >= 1 =>
      /\ Cardinality(TicketsOf(txs[t].order)) = txs[t].quantity
      /\ completions[t] = 1

\* C3: no oversell: the tier's soldCount stays within 0..quantity.
C3_NoOversell == 0 <= tier.soldCount /\ tier.soldCount <= tier.quantity

\* C4: purchases that carry the same idempotency key leave at most one
\* Transaction with the key, exactly one once a purchase created or found it, and
\* every Order has exactly one Transaction (none is left without its own).
C4_InitiateIdempotent ==
  /\ \A k \in ClientKeys : Cardinality(findByIdempotencyKey(k)) <= 1
  /\ Len(orders) = Len(txs)
  /\ \A o \in OrderIds : Cardinality(findByOrder(o)) = 1
  /\ (last.op = "purchase" /\ last.out \in {"initiated", "idempotent"}) =>
       /\ last.t \in TxIds
       /\ findByIdempotencyKey(txs[last.t].idempotencyKey) = {last.t}
       /\ txs[last.t].order \in OrderIds
  /\ (last.op = "purchase" /\ last.out = "duplicate_key") =>
       \E k \in ClientKeys : Cardinality(findByIdempotencyKey(k)) = 1

\* two purchases with one key collided on the unique index; one row of each exists
C4_Witness ==
  /\ last.op = "purchase" /\ last.out = "duplicate_key"
  /\ Len(txs) = 1 /\ Len(orders) = 1

\* C5: for the purchases that share an idempotency key the gateway's Initialize
\* is called at most once (stated of the calls the gateway accepted, which the
\* claim's count includes).
C5_InitializeOnce == \A k \in ClientKeys : gatewayInit[k] <= 1

\* C6: single-use scan: a Ticket is answered VALID at most once; it is used
\* exactly when a scan was answered VALID, with checkedInBy that scanner; a scan
\* of it by an assigned scanner that is not answered VALID is answered
\* ALREADY_USED or RACE_CONDITION, and then some scan was answered VALID.
C6_SingleUseScan ==
  /\ \A k \in TicketIds :
       /\ Len(scanLog[k]) <= 1
       /\ tickets[k].status = "used" <=> Len(scanLog[k]) = 1
       /\ Len(scanLog[k]) = 1 => tickets[k].checkedInBy = scanLog[k][1]
       /\ Len(scanLog[k]) = 0 => tickets[k].status = "valid"
  /\ (last.op = "scan" /\ last.out \notin {"WRONG_EVENT", "NOT_ASSIGNED", "VALID"}) =>
       /\ last.out \in {"ALREADY_USED", "RACE_CONDITION"}
       /\ Len(scanLog[last.t]) = 1

\* a scan lost the race for a Ticket that another scanner checked in
C6_Witness ==
  /\ last.op = "scan" /\ last.out = "RACE_CONDITION"
  /\ tickets[last.t].status = "used"
  /\ Len(scanLog[last.t]) = 1

\* C7: every change of a Transaction's status, by any operation, is one of the
\* allowed transitions; a refunded Transaction never changes status again.
C7_AllowedTransitions ==
  [][\A t \in TxIds :
       txs'[t].status # txs[t].status =>
         txs'[t].status \in STATE_TRANSITIONS[txs[t].status]]_vars

\* the operations of C8 and the status each successful outcome moves to
EngineOps == {"verify", "charge.success", "charge.failed", "admin.retry",
              "buyer.retry", "service.refund", "admin.refund"}

Target ==
  [ completed |-> "completed", failed |-> "failed", processing |-> "processing",
    order_pending |-> "processing", refunded |-> "refunded",
    partially_refunded |-> "partially_refunded" ]

\* C8: state-machine closure: Complete, Fail, Retry and Refund go through only
\* where the Transaction's status allows the transition they ask for; otherwise
\* they answer with an error and write nothing (Transaction, Order, Event
\* counters, Tickets unchanged).
C8_Closure ==
  [][last'.op \in EngineOps =>
       IF last'.out \in DOMAIN Target
         THEN Target[last'.out] \in STATE_TRANSITIONS[txs[last'.t].status]
         ELSE UNCHANGED db]_vars

\* a partial refund of a partially refunded Transaction was refused
C8_Witness ==
  /\ last.op = "service.refund" /\ last.out = "cannot_transition"
  /\ txs[last.t].status = "partially_refunded"

\* C9: refund accounting: totalRefunded is the sum of the refund records, every
\* record is positive and 0 <= totalRefunded <= amount.
C9_RefundAccounting ==
  \A t \in TxIds :
    /\ txs[t].totalRefunded = SumSeq(txs[t].refunds)
    /\ \A i \in 1..Len(txs[t].refunds) : txs[t].refunds[i] > 0
    /\ 0 <= txs[t].totalRefunded
    /\ txs[t].totalRefunded <= txs[t].amount

\* C10: status is refunded exactly when totalRefunded = amount, and
\* partially_refunded exactly when 0 < totalRefunded < amount.
C10_RefundStatus ==
  \A t \in TxIds :
    /\ txs[t].status = "refunded" <=> txs[t].totalRefunded = txs[t].amount
    /\ txs[t].status = "partially_refunded" <=>
         (0 < txs[t].totalRefunded /\ txs[t].totalRefunded < txs[t].amount)

\* C11: a Complete (by verify or by a charge.success webhook) of a Transaction
\* that is already completed answers with the existing result, never with an
\* error, and changes nothing, also when the two race for one reference.
C11_CompleteIdempotentReturn ==
  [][\A t \in TxIds :
       ( /\ txs[t].status = "completed"
         /\ last'.op \in {"verify", "charge.success"} /\ last'.t = t
         /\ last'.out \notin {"failed", "cannot_fail"} )
       => /\ last'.out \in {"already_verified", "skipped"}
          /\ UNCHANGED db]_vars

\* C12: a Complete of a Transaction whose order no longer fits the tier
\* (soldCount + quantity > tier quantity) ends with the Transaction failed and
\* leaves soldCount as it was, so that soldCount ends at the tier's quantity.
C12_OversellRecovery ==
  [][\A t \in TxIds :
       ( /\ last'.op \in {"verify", "charge.success"} /\ last'.t = t
         /\ last'.out \in {"completed", "cannot_complete"}
         /\ validateStateTransition(txs[t].status, "completed")
         /\ tier.soldCount + orders[txs[t].order].quantity > tier.quantity )
       => /\ txs'[t].status = "failed"
          /\ tier'.soldCount = tier.soldCount
          /\ tier'.soldCount <= tier.quantity]_vars

\* C13: an Initiate call whose idempotency key already belongs to a
\* Transaction answers with that Transaction marked idempotent, never goes on
\* to validation and the gateway, and leaves every row, the gateway and every
\* request in flight as they were.
C13_IdempotentInitiateFrame ==
  [][ /\ \A s \in Slots :
           (reqs[s].op = "idle" /\ reqs'[s].op = "purchase")
           => ~ \E t \in TxIds : txs[t].idempotencyKey = reqs'[s].key
      /\ (last'.op = "purchase" /\ last'.out = "idempotent")
           => /\ UNCHANGED <<db, gatewayInit, reqs>>
              /\ last'.t \in TxIds
              /\ txs[last'.t].idempotencyKey \in ClientKeys ]_vars

C13_Witness ==
  /\ last.op = "purchase" /\ last.out = "idempotent"
  /\ last.t \in TxIds /\ txs[last.t].idempotencyKey \in ClientKeys
  /\ Len(orders) = 1 /\ gatewayInit[txs[last.t].idempotencyKey] = 1

\* C14: a Transaction in partially_refunded whose net amount is still positive
\* can be refunded again through POST /transactions/:id/refund: the endpoint
\* never answers such a Transaction with "not refundable".
C14_RefundAgain ==
  (last.op = "admin.refund" /\ last.out = "not_refundable")
  => ~ ( /\ txs[last.t].status = "partially_refunded"
         /\ netAmount(txs[last.t]) > 0 )

\* C15: a refund step that makes the Transaction fully refunded leaves every
\* Ticket of its order cancelled, and a partial refund changes no Ticket.
C15_TicketsCancelledOnFullRefund ==
  [][\A t \in TxIds :
       ( /\ last'.op \in {"service.refund", "admin.refund", "dispute.resolve"}
         /\ last'.t = t
         /\ Len(txs'[t].refunds) > Len(txs[t].refunds) )
       => /\ txs'[t].status = "refunded"
               => \A k \in TicketsOf(txs[t].order) : tickets'[k].status = "cancelled"
          /\ txs'[t].status = "partially_refunded" => tickets' = tickets]_vars

\* C16: whenever a Transaction is in status refunded, its Order has
\* paymentStatus refunded.
C16_OrderFollowsRefund ==
  \A t \in TxIds :
    txs[t].status = "refunded" => orders[txs[t].order].paymentStatus = "refunded"

\* C17: a step that records a refund, full or partial, leaves the tier's
\* soldCount and the event's totalTicketsSold and totalRevenue unchanged.
C17_RefundKeepsCounters ==
  [][\A t \in TxIds :
       ( /\ last'.op \in {"service.refund", "admin.refund", "dispute.resolve"}
         /\ last'.t = t
         /\ Len(txs'[t].refunds) > Len(txs[t].refunds) )
       => /\ tier'.soldCount = tier.soldCount
          /\ event'.totalTicketsSold = event.totalTicketsSold
          /\ event'.totalRevenue = event.totalRevenue]_vars

C17_Witness ==
  /\ last.op = "service.refund" /\ last.out \in {"refunded", "partially_refunded"}
  /\ txs[last.t].totalRefunded > 0
  /\ tier.soldCount > 0 /\ event.totalRevenue > 0

\* C18: an Order whose paymentStatus is completed references exactly as many
\* tickets as its quantity, and a pending Order references none.
C18_OrderTickets ==
  \A o \in OrderIds :
    /\ orders[o].paymentStatus = "completed"
         => Len(orders[o].tickets) = orders[o].quantity
    /\ orders[o].paymentStatus = "pending" => orders[o].tickets = <<>>

\* C19: in every reachable state the event's totalTicketsSold equals the sum
\* of soldCount over its tiers (one tier here).
C19_TicketsSoldIsSoldCount == event.totalTicketsSold = tier.soldCount

\* C20: in every reachable state the event's totalRevenue equals the sum of
\* totalAmount over its Orders whose paymentStatus is completed, also after
\* full and partial refunds.
C20_RevenueIsCompletedOrders == event.totalRevenue = actualRevenue

\* C21: in every reachable state every Order has exactly one Transaction
\* referring to it, and every Transaction refers to an existing Order.
C21_OneTransactionPerOrder ==
  /\ \A o \in OrderIds : Cardinality({t \in TxIds : txs[t].order = o}) = 1
  /\ \A t \in TxIds : txs[t].order \in OrderIds

\* C22: a Fail of a Transaction that is already failed answers without error
\* and changes nothing.
C22_FailIdempotent ==
  [][\A t \in TxIds :
       ( /\ txs[t].status = "failed"
         /\ last'.op \in {"verify", "charge.failed"} /\ last'.t = t
         /\ last'.out \in {"failed", "cannot_fail"} )
       => /\ last'.out # "cannot_fail"
          /\ UNCHANGED db]_vars

\* C23: a retry, by the admin's or the buyer's entry point, takes effect only
\* on a Transaction that is failed with retryCount < maxRetries, and retryCount
\* never exceeds maxRetries, also with retry requests in flight together.
C23_RetryPrecondition ==
  [][ /\ \A t \in TxIds : txs'[t].retryCount <= txs'[t].maxRetries
      /\ \A t \in TxIds :
           ( /\ last'.op \in {"admin.retry", "buyer.retry"} /\ last'.t = t
             /\ last'.out = "processing" )
           => canRetry(txs[t].status, txs[t].retryCount, txs[t].maxRetries) ]_vars

\* C24: webhook ingestion always answers with HTTP 200, whatever the
\* signature, the event field, the event type, the reference, or an exception
\* thrown inside a handler.
C24_WebhookAlways200 == last.op = "webhook" => last.http = 200

C24_Witness ==
  /\ last.op = "webhook" /\ last.http = 200
  /\ last.out = "cannot_complete" /\ last.t \in TxIds

\* C25: a webhook request whose signature is not the HMAC-SHA512 of the raw
\* body under the server's secret, or that arrives when no secret is
\* configured, is answered "Invalid signature" with success false and changes
\* nothing; it never goes on to processEvent.
C25_SignatureOverRawBody ==
  [][\A secretKey \in {NoSecret, ServerSecret}, raw \in RawBodies,
        signature \in Signatures, eventType \in EventTypes, hasData \in BOOLEAN,
        reference \in {UnknownReference} \cup TxIds :
       ( /\ WebhookReceive(1, secretKey, raw, signature, eventType, hasData,
                           reference)
         /\ \/ secretKey = NoSecret
            \/ signature # HmacSha512(secretKey, raw) )
       => /\ last'.out = "Invalid signature" /\ ~last'.success
          /\ UNCHANGED <<db, reqs>>]_vars

\* C26: verifying a token as generateTicketToken made it answers valid, with
\* the ticket id, the event id (as a string) and the iat it was made of.
C26_TokenRoundTrip ==
  ( /\ last.op = "qr.verify"
    /\ last.token = generateTicketToken(last.issued.ticketId, last.issued.eventId,
                                        last.issued.iat) )
  => /\ last.result.valid
     /\ last.result.ticketId = last.issued.ticketId
     /\ last.result.eventId = ObjectIdToString(last.issued.eventId)
     /\ last.result.issuedAt = last.issued.iat

C26_Witness ==
  /\ last.op = "qr.verify" /\ last.result.valid
  /\ last.token = generateTicketToken("t2", 2, 1)

\* C27: every token that differs from the one generateTicketToken made is
\* answered valid = false, and a malformed one is answered, never thrown on.
C27_MutatedTokenRejected ==
  ( /\ last.op = "qr.verify"
    /\ last.token # generateTicketToken(last.issued.ticketId, last.issued.eventId,
                                        last.issued.iat) )
  => ~last.result.valid

\* C28: a purchase goes on to the gateway and to the creation of its Order and
\* Transaction only for an event that is published and not soft-deleted.
C28_EventPurchasable ==
  [][\A s \in Slots :
       ( /\ reqs[s].op = "purchase" /\ reqs[s].pc = "validate"
         /\ reqs'[s].op = "purchase" /\ reqs'[s].pc = "create" )
       => /\ event.status = "published"
          /\ event.deletedAt = "null"]_vars

\* C29: a purchase whose quantity is outside [1,10] is rejected, with no
\* gateway call and no Order or Transaction row created.
C29_QuantityChecked ==
  [][\A key \in ClientKeys \cup {NoKey}, quantity \in Quantities :
       ( /\ PurchaseLookup(1, key, quantity)
         /\ (quantity < 1 \/ quantity > MaxQuantity) )
       => /\ last'.out = "bad_quantity"
          /\ UNCHANGED <<db, gatewayInit, reqs>>]_vars

\* C30: a failing audit write never fails its caller: no operation answers with
\* the audit's exception, a retry goes on to the gateway after its audit, and
\* the webhook's audit step changes neither the result nor the database.
C30_AuditNeverFailsCaller ==
  [][ /\ last'.out # "audit_error"
      /\ \A s \in Slots :
           /\ (reqs[s].op = "webhook" /\ reqs[s].pc = "audit")
                => /\ reqs'[s].result = reqs[s].result
                   /\ UNCHANGED db
           /\ (reqs[s].op = "admin.retry" /\ reqs[s].pc = "save")
                => reqs'[s].op = "admin.retry" ]_vars

\* a webhook completed the transaction although its audit entry was not written
C30_Witness ==
  /\ last.op = "webhook" /\ last.out = "completed" /\ last.audit = "null"

\* C31: when the gateway's Initialize fails during a purchase, the purchase's
\* Transaction has been committed and is in status failed as the error is returned.
C31_InitFailureRecorded ==
  [][(last'.op = "purchase" /\ last'.out = "init_failed")
       => \E t \in 1..Len(txs') : txs'[t].status = "failed"]_vars

\* C32: a retry saves the Transaction as processing with retryCount increased by
\* one; when the gateway's Initialize then fails, the Transaction is failed again
\* and has a nextRetryAt.
C32_RetryFailureReverts ==
  [][ /\ ( /\ last'.op \in {"admin.retry", "service.retry", "buyer.retry"}
           /\ last'.out = "processing" )
         => /\ txs[last'.t].status = "failed"
            /\ txs'[last'.t].status = "processing"
            /\ txs'[last'.t].retryCount = txs[last'.t].retryCount + 1
      /\ ( /\ last'.op \in {"admin.retry", "service.retry", "buyer.retry"}
           /\ last'.out \in {"failed", "reinit_failed"} )
         => /\ txs'[last'.t].status = "failed"
            /\ txs'[last'.t].nextRetryAt # "null" ]_vars

\* C33: a refund request appends a refund record only for an amount with
\* 0 < amount <= net, where net = amount - totalRefunded before the request.
C33_RefundAmountInRange ==
  [][\A t \in 1..Len(txs) :
       ( /\ last'.op \in {"admin.refund", "service.refund"}
         /\ Len(txs'[t].refunds) > Len(txs[t].refunds) )
       => LET refundAmount == txs'[t].refunds[Len(txs'[t].refunds)]
          IN /\ 0 < refundAmount
             /\ refundAmount <= netAmount(txs[t])]_vars

\* C34: a webhook of type transfer.success, transfer.failed, refund.processed or
\* of an unknown type changes no Transaction, Order, Event or Ticket, and an
\* unknown type is acknowledged as not handled.
C34_OtherEventsChangeNothing ==
  [][( /\ last'.op = "webhook"
       /\ last'.eventType \notin {NoEvent, "charge.success", "charge.failed"} )
       => /\ UNCHANGED db
          /\ last'.eventType \notin TransferEvents
               => (last'.out = "unhandled" /\ last'.success)]_vars

\* a signed event of an unknown type was acknowledged
C34_Witness ==
  /\ last.op = "webhook" /\ last.eventType = "customer.created"
  /\ last.out = "unhandled"

\* C35: a scan by a validator whose assignedEvents lack the ticket's event is
\* answered NOT_ASSIGNED and changes no Ticket; a Ticket becomes used only by the
\* scan of an admin or of a validator assigned to the ticket's event.
C35_OnlyAssignedCheckIn ==
  [][ /\ (last'.op = "scan" /\ last'.out = "NOT_ASSIGNED") => UNCHANGED tickets
      /\ \A s \in Slots, k \in TicketIds, u \in Scanners, e \in BOOLEAN,
            assignedEvents \in SUBSET ScanEvents :
           ( /\ TicketEvent \notin assignedEvents
             /\ e
             /\ ScanLoad(s, k, u, e, "validator", assignedEvents) )
           => last'.out = "NOT_ASSIGNED"
      /\ \A k \in TicketIds :
           (tickets[k].status # "used" /\ tickets'[k].status = "used")
           => \E s \in Slots :
                /\ reqs[s].op = "scan" /\ reqs[s].k = k
                /\ tickets'[k].checkedInBy = reqs[s].user
                /\ \/ reqs[s].role = "admin"
                   \/ TicketEvent \in reqs[s].assignedEvents ]_vars

\* an unassigned validator was turned away from a valid Ticket, after another
\* Ticket was checked in
C35_Witness ==
  /\ last.op = "scan" /\ last.out = "NOT_ASSIGNED"
  /\ tickets[last.t].status = "valid"
  /\ \E k \in TicketIds : tickets[k].status = "used"

C37_SplitAddsUp ==
  last.op = "calculateSplit" =>
    LET total == last.totalAmount
        percentage == last.organizerPercentage
        organizerAmount == last.splits.organizerAmount
        platformAmount == last.splits.platformAmount
    IN /\ organizerAmount * 100 <= total * percentage
       /\ total * percentage < (organizerAmount + 1) * 100
       /\ organizerAmount + platformAmount = total
       /\ organizerAmount >= 0 /\ platformAmount >= 0
       /\ platformAmount * 100 >= total * (100 - percentage)

\* a total that 90 per cent does not divide: the residue went to the platform
C37_Witness ==
  /\ last.op = "calculateSplit"
  /\ last.totalAmount = 11 /\ last.organizerPercentage = DefaultOrganizerPercentage
  /\ last.splits = [organizerAmount |-> 9, platformAmount |-> 2]

\* C38: a Transaction is completed only by a verification or a charge.success
\* event that reports a paid amount equal to the Transaction's amount.
C38_PaidInFull ==
  [][\A s \in Slots, paidAmount \in PaidAmounts :
       ( /\ VerifyGateway(s, paidAmount) \/ ChargeSuccessComplete(s, paidAmount)
         /\ last'.out = "completed" )
       => paidAmount = txs[last'.t].amount]_vars

\* C39: the user's non-cancelled Tickets in the tier never exceed tier.maxPerUser.
C39_PerUserLimit == existingTickets <= tier.maxPerUser

\* C40: a Transaction that is initiated or processing has an Order that is
\* pending, and a failed Transaction has a failed Order, whichever retry path ran.
C40_OrderInStep ==
  \A t \in TxIds :
    /\ txs[t].status \in {"initiated", "processing"}
         => orders[txs[t].order].paymentStatus = "pending"
    /\ txs[t].status = "failed"
         => orders[txs[t].order].paymentStatus = "failed"

============================================================================
